---- MODULE Spec2Model ----
(***************************************************************************)
(* Model of the signal evaluation and ranking engine of tr-bot-mvp         *)
(* (src/src/providers/traderepublic.py) and of its callers in              *)
(* src/src/bot.py.                                                         *)
(*                                                                         *)
(* Prices are integers (price units), and every float of the source that   *)
(* is a quotient (a moving average, a return, the ATR, the volatility) is  *)
(* kept as an exact fraction [n, d] with d > 0, so that the comparisons of *)
(* the source are decided exactly; float rounding is not modelled.         *)
(* Optional[float] is the record with def = FALSE.                         *)
(***************************************************************************)
EXTENDS Integers, Sequences, FiniteSets, TLC

\* ------------------------------------------------------------------------
\* Bounds of the model
UniverseLen == 2
MaxTopK == 2
ExtraBars == 2
Handlers == 2
MaxItems == 2

\* Program constants
MinBars == 30
SmaShort == 20
SmaMid == 50
SmaLong == 200
RetWindow == 63
SlopeBars == 260
SlopeLag == 10
AtrWindow == 14
ScoreS1 == 40
ScoreS2 == 50
PenaltyWeight == 30
ScoreMax == 100

\* ------------------------------------------------------------------------
\* Exact fractions and Optional[float]
Abs(x) == IF x < 0 THEN -x ELSE x

Max2(a, b) == IF a >= b THEN a ELSE b

Min2(a, b) == IF a <= b THEN a ELSE b

Rat(n, d) == IF d < 0 THEN [def |-> TRUE, n |-> -n, d |-> -d]
                      ELSE [def |-> TRUE, n |-> n, d |-> d]

NoneVal == [def |-> FALSE, n |-> 0, d |-> 1]

RatLT(a, b) == a.n * b.d < b.n * a.d

RatLE(a, b) == a.n * b.d <= b.n * a.d

RatSub(a, b) == Rat(a.n * b.d - b.n * a.d, a.d * b.d)

RatScale(k, a) == Rat(k.n * a.n, k.d * a.d)

Zero == Rat(0, 1)

\* Python's `x or 0.0` for an Optional[float]: None and 0.0 are both falsy
OrZero(r) == IF r.def /\ r.n # 0 THEN r ELSE Zero

\* int(x) of a float: truncation towards zero
PyInt(r) == IF r.n >= 0 THEN r.n \div r.d ELSE -((-r.n) \div r.d)

\* ------------------------------------------------------------------------
\* Sequences as Python lists
\* sum(vals[lo..hi]), halving the range
RECURSIVE SumRange(_, _, _)
SumRange(s, lo, hi) ==
    IF lo > hi THEN 0
    ELSE IF lo = hi THEN s[lo]
    ELSE LET mid == (lo + hi) \div 2
         IN SumRange(s, lo, mid) + SumRange(s, mid + 1, hi)


\* vals[-k] for 1 <= k <= len
FromEnd(s, k) == s[Len(s) - k + 1]

Reverse(s) == [j \in 1..Len(s) |-> s[Len(s) - j + 1]]

\* out[:n] for n >= 0
Prefix(s, n) == SubSeq(s, 1, Min2(n, Len(s)))

\* ------------------------------------------------------------------------
\* Indicator library
\* sum(vals[-n:]) for 1 <= n <= len
SumLast(vals, n) == SumRange(vals, Len(vals) - n + 1, Len(vals))

_sma(vals, n) == IF Len(vals) < n THEN NoneVal
                 ELSE Rat(SumLast(vals, n), n)

_ret(values, k) == IF Len(values) <= k \/ FromEnd(values, k + 1) = 0
                   THEN NoneVal
                   ELSE Rat(FromEnd(values, 1) - FromEnd(values, k + 1),
                            FromEnd(values, k + 1))

TrueRange(high, low, close, j) ==
    Max2(high[j] - low[j],
         Max2(Abs(high[j] - close[j - 1]), Abs(low[j] - close[j - 1])))

\* sum of the true ranges of the bars lo..hi, halving the range
RECURSIVE SumTR(_, _, _, _, _)
SumTR(high, low, close, lo, hi) ==
    IF lo > hi THEN 0
    ELSE IF lo = hi THEN TrueRange(high, low, close, lo)
    ELSE LET mid == (lo + hi) \div 2
         IN SumTR(high, low, close, lo, mid)
            + SumTR(high, low, close, mid + 1, hi)

\* trs holds the true ranges of the bars 2..n; sum(trs[-14:]) / 14
_atr14(high, low, close) ==
    LET n == Len(close)
    IN IF n < AtrWindow + 1 THEN NoneVal
       ELSE IF n - 1 < AtrWindow THEN NoneVal
       ELSE Rat(SumTR(high, low, close, n - AtrWindow + 1, n), AtrWindow)

\* ------------------------------------------------------------------------
\* Signal detector
Pct(k) == Rat(k, 100)

\* Mutant: the momentum signal does not look at the 20-day average
S1MomentumOnly(close, ma20, ret1d, ret5d) ==
    RatLE(Pct(1), ret1d) \/ RatLE(Pct(3), ret5d)

S1Of(close, ma20, ret1d, ret5d) ==
    /\ (RatLE(Pct(1), ret1d) \/ RatLE(Pct(3), ret5d))
    /\ ma20.def
    /\ RatLT(RatScale(Rat(1005, 1000), ma20), Rat(FromEnd(close, 1), 1))

\* close[-1] > ma50 > ma200, both defined
MaOrdered(close, ma50, ma200) ==
    /\ ma50.def
    /\ ma200.def
    /\ RatLT(ma50, Rat(FromEnd(close, 1), 1))
    /\ RatLT(ma200, ma50)

\* mean of close[-50:] against mean of close[-60:-10], with 260 bars or more
SlopeUp(close) ==
    /\ Len(close) >= SlopeBars
    /\ LET recent == Rat(SumLast(close, SmaMid), SmaMid)
           old == Rat(SumRange(close, Len(close) - (SmaMid + SlopeLag) + 1,
                               Len(close) - SlopeLag), SmaMid)
       IN RatLT(old, recent)

\* Mutant: an undefined return is read as zero
RsOkNoneAsZero(bench_ret63, sym_ret63) ==
    RatLT(Zero, RatSub(OrZero(sym_ret63), OrZero(bench_ret63)))

RsOk(bench_ret63, sym_ret63) ==
    /\ bench_ret63.def
    /\ sym_ret63.def
    /\ RatLT(Zero, RatSub(sym_ret63, bench_ret63))

B2N(b) == IF b THEN 1 ELSE 0

S3Of(close, ma20, ret1d) ==
    /\ ma20.def
    /\ Len(close) >= SmaShort + 1
    /\ RatLE(ma20, Rat(FromEnd(close, 2), 1))
    /\ RatLT(Rat(FromEnd(close, 1), 1), ma20)
    /\ RatLE(ret1d, Pct(-1))

_signals(close, ma20, ma50, ma200, bench_ret63, sym_ret63) ==
    LET ret1d == OrZero(_ret(close, 1))
        ret5d == OrZero(_ret(close, 5))
        s2_parts == B2N(MaOrdered(close, ma50, ma200)) + B2N(SlopeUp(close))
                    + B2N(RsOk(bench_ret63, sym_ret63))
    IN [ret1d |-> ret1d, ret5d |-> ret5d,
        s1 |-> S1Of(close, ma20, ret1d, ret5d),
        s2 |-> s2_parts >= 2,
        s2_parts |-> s2_parts,
        s3 |-> S3Of(close, ma20, ret1d)]

\* ------------------------------------------------------------------------
\* Scorer
RiskOf(high, low, close) ==
    LET atr == _atr14(high, low, close)
        price == FromEnd(close, 1)
    IN IF atr.def /\ price # 0
       THEN LET vol == Rat(atr.n, atr.d * price)
            IN IF RatLT(vol, Rat(15, 1000))
               THEN [riesgo |-> "Bajo", penalty |-> Rat(0, 1)]
               ELSE IF RatLT(Rat(3, 100), vol)
               THEN [riesgo |-> "Alto", penalty |-> Rat(1, 1)]
               ELSE [riesgo |-> "Medio", penalty |-> Rat(1, 2)]
       ELSE [riesgo |-> "Medio", penalty |-> Rat(1, 2)]

ScoreRaw(sg, penalty) ==
    (IF sg.s1 THEN ScoreS1 ELSE 0) + (IF sg.s2 THEN ScoreS2 ELSE 0)
    - PyInt(RatScale(Rat(PenaltyWeight, 1), penalty))

\* Mutant: the lower clamp is missing
ClampUpperOnly(raw) == Min2(ScoreMax, raw)

Clamp(raw) == Max2(0, Min2(ScoreMax, raw))

HorizonOf(sg) ==
    IF sg.s2 THEN (IF sg.s2_parts >= 3 THEN "Largo" ELSE "Medio")
    ELSE IF sg.s1 THEN "Corto"
    ELSE "Observacion"

\* Mutant: momentum alone gives no confidence
ConfidenceNeedsTrend(sg, riesgo) ==
    IF sg.s2 /\ riesgo # "Alto" THEN "Alta"
    ELSE IF sg.s2 THEN "Media"
    ELSE "Baja"

ConfidenceOf(sg, riesgo) ==
    IF sg.s2 /\ riesgo # "Alto" THEN "Alta"
    ELSE IF sg.s1 \/ sg.s2 THEN "Media"
    ELSE "Baja"

_risk_and_score(high, low, close, sg) ==
    LET rk == RiskOf(high, low, close)
    IN [riesgo |-> rk.riesgo,
        score |-> Clamp(ScoreRaw(sg, rk.penalty)),
        confianza |-> ConfidenceOf(sg, rk.riesgo),
        horizonte |-> HorizonOf(sg)]

\* ------------------------------------------------------------------------
\* Decision mapper
\* Mutant: the momentum branch is tested before the breakdown branch
DecisionBuyFirst(sg) ==
    IF sg.s1 THEN "COMPRAR"
    ELSE IF sg.s3 THEN "VENDER"
    ELSE IF sg.s2 THEN "MANTENER"
    ELSE "EVITAR"

Decision(sg) ==
    IF sg.s3 THEN "VENDER"
    ELSE IF sg.s1 /\ ~sg.s3 THEN "COMPRAR"
    ELSE IF sg.s2 THEN "MANTENER"
    ELSE "EVITAR"

Razones(sg) ==
    LET r1 == IF sg.s1 THEN <<"S1 activo">> ELSE <<>>
        r2 == IF sg.s2 THEN <<"S2 activo">> ELSE <<>>
        r3 == IF sg.s3 THEN <<"S3 activo">> ELSE <<>>
        rs == r1 \o r2 \o r3
    IN IF rs = <<>> THEN <<"Sin senales fuertes">> ELSE rs

\* ------------------------------------------------------------------------
\* Configuration
DEFAULT_UNIVERSE ==
    <<"AAPL", "MSFT", "NVDA", "AMZN", "GOOGL", "META", "TSLA", "AVGO", "AMD",
      "NFLX", "ADBE", "COST", "PEP", "ORCL", "SPY", "QQQ", "IWM", "VTI", "VOO",
      "EFA", "EEM", "ASML", "SAP", "NVO">>

\* The universe scanned by buyideas (UNIVERSE_TICKERS overrides the default
\* list; here its first UniverseLen tickers)
Universe == SubSeq(DEFAULT_UNIVERSE, 1, UniverseLen)

BENCHMARK == "SPY"

\* ------------------------------------------------------------------------
\* What the data sources may answer
BasePrice == 1000

\* n daily bars: closes start at BasePrice and move by step a day, the last
\* bar by step + delta; high and low are spread away from the close
Bars(n, step, delta, spread) ==
    LET c == [j \in 1..n |-> BasePrice + step * (j - 1)
                             + (IF j = n THEN delta ELSE 0)]
    IN [c |-> c,
        h |-> [j \in 1..n |-> c[j] + spread],
        l |-> [j \in 1..n |-> c[j] - spread]]

FinnhubSeries ==
    { Bars(0, 0, 0, 0),
      Bars(MinBars - 1, 0, 20, 10),
      Bars(MinBars, 0, 20, 10),
      Bars(MinBars, 0, -30, 20),
      Bars(MinBars, 0, 0, 5),
      Bars(SlopeBars, 0, 20, 5),
      Bars(SlopeBars, 10, 0, 5) }

\* Answers of GET /stock/candle through _fh_json
CandleResponses ==
    { [kind |-> "error", s |-> "", c |-> <<>>, h |-> <<>>, l |-> <<>>],
      [kind |-> "json", s |-> "no_data", c |-> <<>>, h |-> <<>>, l |-> <<>>] }
    \cup { [kind |-> "json", s |-> "ok", c |-> b.c, h |-> b.h, l |-> b.l] :
           b \in FinnhubSeries }

Null == [null |-> TRUE, v |-> 0]

Cell(v) == [null |-> FALSE, v |-> v]

\* A Yahoo quote block: the bars of b, with null at the given indices
YahooQuote(b, nc, nh, nl) ==
    [kind |-> "json",
     close |-> [j \in 1..Len(b.c) |-> IF j \in nc THEN Null ELSE Cell(b.c[j])],
     high |-> [j \in 1..Len(b.h) |-> IF j \in nh THEN Null ELSE Cell(b.h[j])],
     low |-> [j \in 1..Len(b.l) |-> IF j \in nl THEN Null ELSE Cell(b.l[j])]]

\* Answers of GET /v8/finance/chart: an error (HTTP status, no result, no
\* quote block) or a quote block
YahooResponses ==
    { [kind |-> "error", close |-> <<>>, high |-> <<>>, low |-> <<>>],
      YahooQuote(Bars(MinBars + 2, 0, 20, 10), {3}, {7}, {}),
      YahooQuote(Bars(MinBars + 1, 0, 20, 10), {3}, {}, {7, 3}) }

\* Answers of GET /search through _fh_json, for query q
IsTicker(q) == \E j \in 1..Len(DEFAULT_UNIVERSE) : DEFAULT_UNIVERSE[j] = q

SearchResponses(q) ==
    { [kind |-> "error", result |-> <<>>],
      [kind |-> "json", result |-> <<>>],
      [kind |-> "json",
       result |-> IF IsTicker(q)
                  THEN <<[symbol |-> "BRK.B", description |-> ""],
                         [symbol |-> q, description |-> "Company"]>>
                  ELSE <<[symbol |-> "BRK.B", description |-> ""],
                         [symbol |-> "AAPL", description |-> "Apple Inc"]>>] }

\* The queries of /check: a ticker and a company name
CheckQueries == {Universe[1], "APPLE INC"}

LivePrice == 1234

\* Answers of GET /quote through _fh_json: an error, {} , c = 0, c = price
QuoteResponses ==
    { [kind |-> "error", empty |-> TRUE, c |-> 0],
      [kind |-> "json", empty |-> TRUE, c |-> 0],
      [kind |-> "json", empty |-> FALSE, c |-> 0],
      [kind |-> "json", empty |-> FALSE, c |-> LivePrice] }

\* ------------------------------------------------------------------------
\* Series fetcher

\* Mutant: every JSON answer of the primary source is returned, whatever
\* its status
PrimaryAnyStatus(js) == js.kind = "json"

\* _candles: the primary answer is returned only when its status is "ok"
PrimaryOk(js) == js.kind = "json" /\ js.s = "ok"

\* Mutant: only a None close drops the row
RECURSIVE AlignFromCloseOnly(_, _, _, _)
AlignFromCloseOnly(c_raw, h_raw, l_raw, j) ==
    IF j > Min2(Len(c_raw), Min2(Len(h_raw), Len(l_raw)))
    THEN [c |-> <<>>, h |-> <<>>, l |-> <<>>]
    ELSE LET rest == AlignFromCloseOnly(c_raw, h_raw, l_raw, j + 1)
         IN IF c_raw[j].null
            THEN rest
            ELSE [c |-> <<c_raw[j].v>> \o rest.c,
                  h |-> <<h_raw[j].v>> \o rest.h,
                  l |-> <<l_raw[j].v>> \o rest.l]

\* _candles_yahoo: zip(c_raw, h_raw, l_raw) without the rows holding a None
RECURSIVE AlignFrom(_, _, _, _)
AlignFrom(c_raw, h_raw, l_raw, j) ==
    IF j > Min2(Len(c_raw), Min2(Len(h_raw), Len(l_raw)))
    THEN [c |-> <<>>, h |-> <<>>, l |-> <<>>]
    ELSE LET rest == AlignFrom(c_raw, h_raw, l_raw, j + 1)
         IN IF c_raw[j].null \/ h_raw[j].null \/ l_raw[j].null
            THEN rest
            ELSE [c |-> <<c_raw[j].v>> \o rest.c,
                  h |-> <<h_raw[j].v>> \o rest.h,
                  l |-> <<l_raw[j].v>> \o rest.l]

Align(q) == AlignFrom(q.close, q.high, q.low, 1)

\* _candles_yahoo raises: no usable answer, or fewer than 30 aligned bars
YahooRaises(resp, aligned) == resp.kind = "error" \/ Len(aligned.c) < MinBars

\* Mutant: the length test is off by one
TooShortOffByOne(c) == c = <<>> \/ Len(c) < MinBars - 1

\* evaluate: `if not c or len(c) < 30: raise`
TooShort(c) == c = <<>> \/ Len(c) < MinBars

\* Mutant: a failed benchmark fetch counts as a benchmark return of zero
BenchRetZero == Zero

\* evaluate: what a failed benchmark fetch leaves in bench_ret63
BenchRetOnFailure == NoneVal

\* evaluate: bench_ret63 of a fetched benchmark series
BenchRet(c) == IF c # <<>> THEN _ret(c, RetWindow) ELSE NoneVal

\* ------------------------------------------------------------------------
\* Symbol resolver
RECURSIVE ExactMatch(_, _, _)
ExactMatch(res, q, j) ==
    IF j > Len(res) THEN 0
    ELSE IF res[j].symbol = q THEN j
    ELSE ExactMatch(res, q, j + 1)

OrStr(a, b) == IF a # "" THEN a ELSE b

\* (symbol, description) of a non-empty candidate list
_search_symbol(res, q) ==
    LET j == ExactMatch(res, q, 1)
    IN IF j # 0
       THEN [symbol |-> res[j].symbol,
             name |-> OrStr(res[j].description, res[j].symbol)]
       ELSE [symbol |-> res[1].symbol,
             name |-> OrStr(res[1].description, OrStr(res[1].symbol, q))]

\* ------------------------------------------------------------------------
\* Universe ranker

\* list.sort is stable: x goes after every element whose key is <= its key
RECURSIVE InsertAsc(_, _)
InsertAsc(s, x) ==
    IF s = <<>> THEN <<x>>
    ELSE IF Head(s).score <= x.score THEN <<Head(s)>> \o InsertAsc(Tail(s), x)
    ELSE <<x>> \o s

RECURSIVE StableSortAsc(_)
StableSortAsc(s) ==
    IF s = <<>> THEN <<>>
    ELSE InsertAsc(StableSortAsc(SubSeq(s, 1, Len(s) - 1)), s[Len(s)])

\* Mutant: equal scores come out in reverse encounter order
SortByScoreDescUnstable(s) == Reverse(StableSortAsc(s))

\* out.sort(key=score, reverse=True): the list is reversed, sorted stably in
\* ascending order and reversed again
SortByScoreDesc(s) == Reverse(StableSortAsc(Reverse(s)))

Actionable(r) == r.decision \in {"COMPRAR", "MANTENER"}

\* Mutant: the slice keeps one result more
SliceBoundLoose(k) == Max2(1, k) + 1

\* out[:max(1, top_k)]
SliceBound(k) == Max2(1, k)

\* Mutant: an error of the quote step leaves the loop
SwallowedUnlessQuote(step) == step # "quote"

\* `except Exception: continue`: whether the loop goes on after an
\* evaluation that raised at the given step
Swallowed(step) == TRUE

\* ------------------------------------------------------------------------
\* State
VARIABLES
    apiKey,   \* FINNHUB_API_KEY is set
    mode,     \* the command being served: "none", "check", "buyideas"
    pc,       \* the await the command is suspended at, "idle" or "done"
    top_k,    \* buyideas: the requested count
    idx,      \* buyideas: position of the loop in the universe
    out,      \* buyideas: the list `out`
    ret,      \* what the provider call returned to the command handler
    raised,   \* the provider call raised to the command handler
    ev,       \* the locals of the running evaluate call
    trail,    \* history: how each finished evaluate call ended
    kept,     \* history: the results appended to `out`, in encounter order
    snd       \* the memory store, the chat and the running _send_items calls

vars == <<apiKey, mode, pc, top_k, idx, out, ret, raised, ev, trail, kept,
          snd>>

NoSig == [ret1d |-> Zero, ret5d |-> Zero, s1 |-> FALSE, s2 |-> FALSE,
          s2_parts |-> 0, s3 |-> FALSE]

NoRsk == [riesgo |-> "", score |-> 0, confianza |-> "", horizonte |-> ""]

NoFetch == [attempts |-> <<>>, primary |-> "none", result |-> "none"]

StartFetch == [attempts |-> <<"primary">>, primary |-> "pending",
               result |-> "running"]

\* ev.yahoo while no answer of Yahoo is at stake
NoYahoo == [kind |-> "none", close |-> <<>>, high |-> <<>>, low |-> <<>>]

NoResult == [symbol |-> "", name |-> "", price |-> 0, score |-> 0,
             confianza |-> "", riesgo_cat |-> "", horizonte |-> "",
             decision |-> "", razon |-> <<>>]

\* The locals of evaluate(query) at its first await; fetch and quote are
\* history of the calls made
EvInit(q) ==
    [query |-> q, symbol |-> "", name |-> "", cd |-> Bars(0, 0, 0, 0),
     target |-> "sym", yahoo |-> NoYahoo,
     bench_ret63 |-> NoneVal, sig |-> NoSig, rsk |-> NoRsk, decision |-> "",
     fetch |-> [sym |-> NoFetch, bench |-> NoFetch], quote |-> "none"]

\* The items a provider's get_items may hand to _send_items: two of them
\* differ in the price only
Items ==
    { [name |-> "A", selection |-> "1", price |-> 150],
      [name |-> "A", selection |-> "1", price |-> 160],
      [name |-> "B", selection |-> "X", price |-> 200] }

\* build_fingerprint_payload: date, league, name, market, selection; the
\* price is not part of it
build_fingerprint_payload(item) == <<item.name, item.selection>>

\* make_fingerprint: the digest of namespace:user_id:payload, taken as
\* injective
make_fingerprint(namespace, user_id, payload) == <<namespace, user_id, payload>>

MEMORY_NAMESPACE == "pickmem"

ChatId == "chat"

Fingerprints ==
    { make_fingerprint(MEMORY_NAMESPACE, ChatId, build_fingerprint_payload(it)) :
        it \in Items }

\* The locals of a _send_items call that is not running
NoSend == [pc |-> "idle", items |-> <<>>, i |-> 0, sent |-> 0]

\* No key in the store, nothing delivered, no call running
SndInit(memConfigured) ==
    [mem |-> memConfigured,
     store |-> {},
     storeErr |-> FALSE,
     delivered |-> [fp \in Fingerprints |-> 0],
     h |-> [n \in 1..Handlers |-> NoSend]]

Init ==
    /\ apiKey \in BOOLEAN
    /\ snd = SndInit(FALSE)
    /\ mode = "none"
    /\ pc = "idle"
    /\ top_k = 0
    /\ idx = 0
    /\ out = <<>>
    /\ ret = <<>>
    /\ raised = FALSE
    /\ ev = EvInit("")
    /\ trail = <<>>
    /\ kept = <<>>

\* ------------------------------------------------------------------------
\* The end of an evaluate call, and what its caller does next without
\* awaiting: cmd_check takes the result or the error; the buyideas loop
\* appends an actionable result, swallows an error, and either enters the
\* evaluate of the next ticker or sorts, slices and returns.
EndEval(ev1, step, r) ==
    LET out1 == IF step = "ok" /\ Actionable(r) THEN Append(out, r) ELSE out
    IN /\ trail' = Append(trail, step)
       /\ UNCHANGED <<apiKey, mode, top_k>>
       /\ IF mode = "check"
          THEN /\ pc' = "done"
               /\ ev' = ev1
               /\ ret' = IF step = "ok" THEN <<r>> ELSE <<>>
               /\ raised' = (step # "ok")
               /\ UNCHANGED <<idx, out, kept>>
          ELSE IF step # "ok" /\ ~Swallowed(step)
          THEN /\ pc' = "done"
               /\ ev' = EvInit("")
               /\ raised' = TRUE
               /\ UNCHANGED <<idx, out, ret, kept>>
          ELSE IF idx < Len(Universe)
          THEN /\ pc' = "search"
               /\ idx' = idx + 1
               /\ ev' = EvInit(Universe[idx + 1])
               /\ out' = out1
               /\ kept' = out1
               /\ UNCHANGED <<ret, raised>>
          ELSE /\ pc' = "done"
               /\ ev' = EvInit("")
               /\ out' = SortByScoreDesc(out1)
               /\ kept' = out1
               /\ ret' = Prefix(SortByScoreDesc(out1), SliceBound(top_k))
               /\ UNCHANGED <<idx, raised>>

\* evaluate after the benchmark fetch: signals, score and decision, up to
\* the await of the quote
AfterBench(ev1) ==
    \E e \in {ev1} :
    \E ma20 \in {_sma(e.cd.c, SmaShort)}, ma50 \in {_sma(e.cd.c, SmaMid)},
       ma200 \in {_sma(e.cd.c, SmaLong)}, sym_ret63 \in {_ret(e.cd.c, RetWindow)} :
    \E sg \in {_signals(e.cd.c, ma20, ma50, ma200, e.bench_ret63, sym_ret63)} :
       /\ pc' = "quote"
       /\ ev' = [e EXCEPT !.sig = sg,
                          !.rsk = _risk_and_score(e.cd.h, e.cd.l, e.cd.c, sg),
                          !.decision = Decision(sg),
                          !.yahoo = NoYahoo]
       /\ UNCHANGED <<apiKey, mode, top_k, idx, out, ret, raised, trail, kept>>

\* _candles returned `series` to evaluate
CandlesReturned(ev1, series) ==
    IF ev1.target = "sym"
    THEN IF TooShort(series.c)
         THEN EndEval([ev1 EXCEPT !.cd = series], "short", NoResult)
         ELSE /\ pc' = "primary"
              /\ ev' = [ev1 EXCEPT !.cd = series, !.target = "bench",
                                   !.yahoo = NoYahoo,
                                   !.fetch.bench = StartFetch]
              /\ UNCHANGED <<apiKey, mode, top_k, idx, out, ret, raised,
                             trail, kept>>
    ELSE AfterBench([ev1 EXCEPT !.bench_ret63 = BenchRet(series.c)])

\* _candles raised to evaluate
CandlesRaised(ev1) ==
    IF ev1.target = "sym"
    THEN EndEval(ev1, "candles", NoResult)
    ELSE AfterBench([ev1 EXCEPT !.bench_ret63 = BenchRetOnFailure])

\* ------------------------------------------------------------------------
\* Actions: a command, or the answer to the call a command awaits

\* /check <query>
CmdCheck(q) ==
    /\ pc = "idle"
    /\ UNCHANGED snd
    /\ mode' = "check"
    /\ UNCHANGED <<apiKey, top_k, idx, out, ret, kept>>
    /\ IF apiKey
       THEN /\ pc' = "search"
            /\ ev' = EvInit(q)
            /\ UNCHANGED <<raised, trail>>
       ELSE /\ pc' = "done"
            /\ raised' = TRUE
            /\ trail' = <<"key">>
            /\ UNCHANGED ev

\* /buyideas [n]
CmdBuyideas(k) ==
    /\ pc = "idle"
    /\ UNCHANGED snd
    /\ mode' = "buyideas"
    /\ top_k' = k
    /\ UNCHANGED <<apiKey, out, ret, trail, kept>>
    /\ IF apiKey
       THEN /\ pc' = "search"
            /\ idx' = 1
            /\ ev' = EvInit(Universe[1])
            /\ UNCHANGED raised
       ELSE /\ pc' = "done"
            /\ raised' = TRUE
            /\ UNCHANGED <<idx, ev>>

\* The answer to _search_symbol's request
SearchResponse ==
    /\ pc = "search"
    /\ UNCHANGED snd
    /\ \E resp \in SearchResponses(ev.query) :
         IF resp.kind = "error" \/ resp.result = <<>>
         THEN EndEval(ev, "search", NoResult)
         ELSE \E sd \in {_search_symbol(resp.result, ev.query)} :
                 /\ pc' = "primary"
                 /\ ev' = [ev EXCEPT !.symbol = sd.symbol, !.name = sd.name,
                                     !.target = "sym",
                                     !.fetch.sym = StartFetch]
                 /\ UNCHANGED <<apiKey, mode, top_k, idx, out, ret, raised,
                                trail, kept>>

\* The answer to the Finnhub candle request of _candles. ev.yahoo is what
\* Yahoo answers to a request for the same series at this moment: it is
\* recorded when the fallback asks for it, and for the symbol's series also
\* when it does not.
PrimaryResponse ==
    /\ pc = "primary"
    /\ UNCHANGED snd
    /\ \E js \in CandleResponses :
       \E y \in IF PrimaryOk(js) /\ ev.target = "bench"
                THEN {NoYahoo} ELSE YahooResponses :
         LET t == ev.target
             seen == IF js.kind = "error" THEN "error" ELSE js.s
         IN IF PrimaryOk(js)
            THEN CandlesReturned(
                     [ev EXCEPT !.fetch[t].primary = seen,
                                !.fetch[t].result = "returned",
                                !.yahoo = y],
                     [c |-> js.c, h |-> js.h, l |-> js.l])
            ELSE /\ pc' = "secondary"
                 /\ ev' = [ev EXCEPT !.fetch[t].primary = seen,
                                     !.fetch[t].attempts =
                                         Append(@, "secondary"),
                                     !.yahoo = y]
                 /\ UNCHANGED <<apiKey, mode, top_k, idx, out, ret, raised,
                                trail, kept>>

\* The answer to the Yahoo chart request of _candles_yahoo
SecondaryResponse ==
    /\ pc = "secondary"
    /\ UNCHANGED snd
    /\ \E aligned \in {Align(ev.yahoo)} :
         LET t == ev.target
         IN IF YahooRaises(ev.yahoo, aligned)
            THEN CandlesRaised([ev EXCEPT !.fetch[t].result = "raised"])
            ELSE CandlesReturned([ev EXCEPT !.fetch[t].result = "returned"],
                                 aligned)

\* The answer to _quote's request, and the rest of evaluate
QuoteResponse ==
    /\ pc = "quote"
    /\ UNCHANGED snd
    /\ \E qt \in QuoteResponses :
         IF qt.kind = "error"
         THEN EndEval([ev EXCEPT !.quote = "error"], "quote", NoResult)
         ELSE LET last == FromEnd(ev.cd.c, 1)
                  price == IF ~qt.empty
                           THEN (IF qt.c # 0 THEN qt.c ELSE last)
                           ELSE last
                  r == [symbol |-> ev.symbol, name |-> ev.name,
                        price |-> price, score |-> ev.rsk.score,
                        confianza |-> ev.rsk.confianza,
                        riesgo_cat |-> ev.rsk.riesgo,
                        horizonte |-> ev.rsk.horizonte,
                        decision |-> ev.decision,
                        razon |-> Razones(ev.sig)]
              IN EndEval([ev EXCEPT !.quote = "ok"], "ok", r)

Next ==
    \/ \E q \in CheckQueries : CmdCheck(q)
    \/ \E k \in (-1)..MaxTopK : CmdBuyideas(k)
    \/ SearchResponse
    \/ PrimaryResponse
    \/ SecondaryResponse
    \/ QuoteResponse

Spec == Init /\ [][Next]_vars

\* ------------------------------------------------------------------------
\* The scorer and the decision mapper on their own: every signal state and
\* every risk bucket, whether or not a price series produces it
SigInputs ==
    { [ret1d |-> Zero, ret5d |-> Zero, s1 |-> a, s2 |-> (p >= 2),
       s2_parts |-> p, s3 |-> b] : a \in BOOLEAN, b \in BOOLEAN, p \in 0..3 }

\* Volatility below 1.5%, between, above 3%; too few bars for the ATR; a
\* last close of zero
ScoreSeries ==
    { Bars(MinBars, 0, 0, 5), Bars(MinBars, 0, 0, 10), Bars(MinBars, 0, 0, 20),
      Bars(AtrWindow, 0, 0, 5), Bars(MinBars, 0, -BasePrice, 5) }

PureInit ==
    /\ apiKey = TRUE
    /\ snd = SndInit(FALSE)
    /\ mode = "none"
    /\ pc = "pure"
    /\ top_k = 0
    /\ idx = 0
    /\ out = <<>>
    /\ ret = <<>>
    /\ raised = FALSE
    /\ \E sg \in SigInputs, b \in ScoreSeries :
         ev = [EvInit("") EXCEPT !.sig = sg, !.cd = b]
    /\ trail = <<>>
    /\ kept = <<>>

ApplyRiskAndScore ==
    /\ pc = "pure"
    /\ UNCHANGED snd
    /\ ev.rsk = NoRsk
    /\ ev' = [ev EXCEPT !.rsk = _risk_and_score(ev.cd.h, ev.cd.l, ev.cd.c,
                                                ev.sig)]
    /\ UNCHANGED <<apiKey, mode, pc, top_k, idx, out, ret, raised, trail, kept>>

ApplyDecision ==
    /\ pc = "pure"
    /\ UNCHANGED snd
    /\ ev.decision = ""
    /\ ev' = [ev EXCEPT !.decision = Decision(ev.sig)]
    /\ UNCHANGED <<apiKey, mode, pc, top_k, idx, out, ret, raised, trail, kept>>

PureNext == ApplyRiskAndScore \/ ApplyDecision

PureSpec == PureInit /\ [][PureNext]_vars

\* ------------------------------------------------------------------------
\* Claims

\* C1: the decision is the first match of s3 -> VENDER (SELL), s1 -> COMPRAR
\* (BUY), s2 -> MANTENER (HOLD), else EVITAR (AVOID); whatever s1 and s2
\* are, s3 gives VENDER.
C1_DecisionPriority ==
    ev.decision # "" =>
        /\ ev.sig.s3 => ev.decision = "VENDER"
        /\ (~ev.sig.s3 /\ ev.sig.s1) => ev.decision = "COMPRAR"
        /\ (~ev.sig.s3 /\ ~ev.sig.s1 /\ ev.sig.s2) => ev.decision = "MANTENER"
        /\ (~ev.sig.s3 /\ ~ev.sig.s1 /\ ~ev.sig.s2) => ev.decision = "EVITAR"

\* C1 witness: breakout, trend and breakdown together are decided VENDER
C1_Witness ==
    /\ ev.sig.s1 /\ ev.sig.s2 /\ ev.sig.s3
    /\ ev.decision = "VENDER"

\* round(30 * penalty) of the penalty of a risk bucket (0.0, 0.5, 1.0), from
\* the doubled penalty
RoundedPenalty(riesgo) ==
    LET twice == CASE riesgo = "Bajo" -> 0
                   [] riesgo = "Medio" -> 1
                   [] riesgo = "Alto" -> 2
    IN (PenaltyWeight * twice) \div 2

\* C2: the score is an integer of 0..100 and equals
\* 40*s1 + 50*s2 - round(30*penalty), clamped to 0..100, for every s1, s2 and
\* penalty.
C2_ScoreFormula ==
    ev.rsk # NoRsk =>
        LET raw == 40 * B2N(ev.sig.s1) + 50 * B2N(ev.sig.s2)
                   - RoundedPenalty(ev.rsk.riesgo)
        IN /\ ev.rsk.score \in 0..100
           /\ ev.rsk.score = IF raw < 0 THEN 0 ELSE IF raw > 100 THEN 100
                             ELSE raw

\* C2 witness: no signal and the full penalty: the raw score -30 is clamped
\* to 0
C2_Witness ==
    /\ pc = "pure"
    /\ ev.rsk.riesgo = "Alto"
    /\ ~ev.sig.s1 /\ ~ev.sig.s2
    /\ ev.rsk.score = 0

\* C3: whenever the symbol's series that reaches evaluate has fewer than 30
\* bars, from the primary or from the secondary source, evaluate ends in
\* failure and produces no EvalResult: an evaluation that goes on to the
\* benchmark, the quote or a result holds 30 bars or more.
C3_ShortSeriesFails ==
    /\ (ev.fetch.sym.result = "returned" /\ Len(ev.cd.c) < MinBars) =>
           /\ pc = "done"
           /\ raised
           /\ ret = <<>>
           /\ trail[Len(trail)] = "short"
    /\ (/\ ev.target = "sym"
        /\ ev.fetch.sym.result = "raised"
        /\ ev.yahoo.kind = "json"
        /\ Len(Align(ev.yahoo).c) < MinBars) =>
           /\ pc = "done"
           /\ raised
           /\ ret = <<>>
    /\ (ev.target = "bench" \/ pc = "quote" \/ (mode = "check" /\ ret # <<>>)) =>
           Len(ev.cd.c) >= MinBars

\* C3 witness: /check ended in failure on a primary series of 29 bars
C3_Witness ==
    /\ mode = "check"
    /\ pc = "done"
    /\ ev.fetch.sym.primary = "ok"
    /\ Len(ev.cd.c) = MinBars - 1
    /\ trail = <<"short">>
    /\ raised
    /\ ret = <<>>

\* Position of a ticker in the scanned universe
UniversePos(sym) == CHOOSE i \in 1..Len(Universe) : Universe[i] = sym

\* The results of score v in a list, in the order of the list
WithScore(s, v) == LET Has(r) == r.score = v IN SelectSeq(s, Has)

\* C4: the list buyideas returns holds only COMPRAR (BUY) and MANTENER (HOLD)
\* results, is non-increasing by score, and results of equal score are in
\* the order of their symbols in the universe.
C4_RankedList ==
    (mode = "buyideas" /\ pc = "done" /\ ~raised) =>
        /\ \A j \in 1..Len(ret) : ret[j].decision \in {"COMPRAR", "MANTENER"}
        /\ \A j \in 1..(Len(ret) - 1) : ret[j].score >= ret[j + 1].score
        /\ \A i, j \in 1..Len(ret) :
               (i < j /\ ret[i].score = ret[j].score) =>
                   UniversePos(ret[i].symbol) < UniversePos(ret[j].symbol)
        /\ \A j \in 1..Len(ret) :
               LET mine == WithScore(ret, ret[j].score)
                   theirs == WithScore(kept, ret[j].score)
               IN /\ Len(mine) <= Len(theirs)
                  /\ mine = SubSeq(theirs, 1, Len(mine))

\* C4 witness: two results of equal score were returned
C4_Witness ==
    /\ mode = "buyideas"
    /\ pc = "done"
    /\ Len(ret) >= 2
    /\ ret[1].score = ret[2].score
    /\ ret[1].symbol # ret[2].symbol

\* C5 as stated: for every requested top-K, 0 and negative values included,
\* the list buyideas returns has length at most top-K.
C5_LengthAtMostTopK ==
    (mode = "buyideas" /\ pc = "done" /\ ~raised) => Len(ret) <= top_k

\* C5 amended: for every requested top-K the list buyideas returns has
\* length at most max(1, top-K): one result is returned for a top-K of 0 or
\* less when a result was retained.
C5_LengthAtMostMaxOneTopK ==
    (mode = "buyideas" /\ pc = "done" /\ ~raised) =>
        /\ Len(ret) <= (IF top_k >= 1 THEN top_k ELSE 1)
        /\ (top_k <= 0 /\ kept # <<>>) => Len(ret) = 1

\* C5 witness: a top-K of 0 or less, two results retained, one returned
C5_Witness ==
    /\ mode = "buyideas"
    /\ pc = "done"
    /\ top_k <= 0
    /\ Len(kept) >= 2
    /\ Len(ret) = 1

\* C6: in buyideas a failure of evaluate for one universe symbol, at any
\* step, excludes only that symbol: the error never reaches the caller, every
\* later symbol is still evaluated, and the returned list is the one computed
\* from the results of the other symbols alone.
C6_FailureIsolated ==
    (mode = "buyideas" /\ apiKey) =>
        /\ ~raised
        /\ (pc # "done") =>
               /\ Len(trail) = idx - 1
               /\ ev.query = Universe[idx]
        /\ (pc = "done") =>
               /\ Len(trail) = Len(Universe)
               /\ \A i \in 1..Len(Universe) :
                      trail[i] # "ok" =>
                          \A j \in 1..Len(kept) : kept[j].symbol # Universe[i]
               /\ ret = Prefix(SortByScoreDesc(kept), Max2(1, top_k))

\* C6 witness: an evaluation failed, a later one succeeded and its result
\* was returned
C6_Witness ==
    /\ mode = "buyideas"
    /\ pc = "done"
    /\ ~raised
    /\ \E i \in 1..(Len(trail) - 1) :
           /\ trail[i] \in {"search", "candles", "short", "quote"}
           /\ trail[i + 1] = "ok"
           /\ \E j \in 1..Len(ret) : ret[j].symbol = Universe[i + 1]

\* C7: in one fetch the primary source is attempted once and first; the
\* secondary source is attempted at most once, and exactly when the primary
\* attempt raised or answered a status other than "ok"; nothing follows the
\* secondary attempt.
C7_SingleFallback ==
    \A t \in {"sym", "bench"} :
        LET f == ev.fetch[t]
        IN /\ f.attempts \in {<<>>, <<"primary">>, <<"primary", "secondary">>}
           /\ (f.primary = "none") <=> (f.attempts = <<>>)
           /\ (f.primary \in {"pending", "ok"}) => f.attempts = <<"primary">>
           /\ (f.primary \in {"error", "no_data"}) =>
                  f.attempts = <<"primary", "secondary">>
           /\ (f.result = "raised") => f.attempts = <<"primary", "secondary">>

\* C7 witness: the primary source answered "no_data" and the series came
\* from the one secondary attempt
C7_Witness ==
    /\ ev.fetch.sym.primary = "no_data"
    /\ ev.fetch.sym.attempts = <<"primary", "secondary">>
    /\ ev.fetch.sym.result = "returned"
    /\ Len(ev.cd.c) >= MinBars

\* C8 as stated: fetching the symbol's series fails only if both sources
\* fail or both return fewer than 30 bars: when the primary source answers
\* "ok" with an empty or shorter series and the secondary source could supply
\* 30 aligned bars or more, the secondary is used and the evaluation does
\* not fail for lack of data.
C8_FallbackOnShortPrimary ==
    /\ (/\ ev.target = "sym"
        /\ ev.fetch.sym.primary = "ok"
        /\ Len(ev.cd.c) < MinBars
        /\ ev.yahoo.kind = "json"
        /\ Len(Align(ev.yahoo).c) >= MinBars) =>
           /\ ev.fetch.sym.attempts = <<"primary", "secondary">>
           /\ ~(pc = "done" /\ raised)
    /\ (/\ mode = "check"
        /\ pc = "done"
        /\ trail[Len(trail)] \in {"short", "candles"}) =>
           YahooRaises(ev.yahoo, Align(ev.yahoo))

\* C9 as stated: the quote step is best-effort: with the symbol resolved and
\* a series of 30 bars or more, a failure of the quote call does not make
\* evaluate fail; evaluate returns a result priced at the last close.
C9_QuoteBestEffort ==
    (/\ mode = "check"
     /\ pc = "done"
     /\ ev.quote = "error"
     /\ ev.symbol # ""
     /\ Len(ev.cd.c) >= MinBars) =>
        /\ ~raised
        /\ Len(ret) = 1
        /\ ret[1].price = FromEnd(ev.cd.c, 1)

\* C10: the benchmark fetch is best-effort: when both sources fail for the
\* benchmark, evaluate goes on to the signals with the benchmark 63-day
\* return undefined, and the relative-strength condition adds nothing to
\* s2_parts.
C10_BenchmarkBestEffort ==
    (ev.fetch.bench.result = "raised") =>
        /\ ev.fetch.bench.attempts = <<"primary", "secondary">>
        /\ ev.bench_ret63 = NoneVal
        /\ pc \in {"quote", "done"}
        /\ ev.decision # ""
        /\ ev.sig.s2_parts =
               B2N(MaOrdered(ev.cd.c, _sma(ev.cd.c, SmaMid),
                             _sma(ev.cd.c, SmaLong)))
               + B2N(SlopeUp(ev.cd.c))
        /\ (pc = "done") => trail[Len(trail)] \in {"ok", "quote"}

\* C10 witness: the benchmark fetch failed on both sources, the symbol has a
\* defined and positive 63-day return, and s2_parts counts the two other
\* conditions only
C10_Witness ==
    /\ ev.fetch.bench.result = "raised"
    /\ pc = "quote"
    /\ _ret(ev.cd.c, RetWindow).def
    /\ RatLT(Zero, _ret(ev.cd.c, RetWindow))
    /\ ev.sig.s2_parts = 2
    /\ ev.decision = "MANTENER"

\* ------------------------------------------------------------------------
\* The Yahoo fallback on its own: the symbol fetch of /check at the await of
\* the Yahoo request, after the primary source raised or answered "no_data",
\* with quote blocks of MinBars..MinBars+ExtraBars rising bars holding None,
\* a zero or a shorter column
YahooQuotes ==
    LET plain == { YahooQuote(Bars(n, 1, 0, 10), nc, nh, nl) :
                     n \in MinBars..(MinBars + ExtraBars),
                     nc \in {{}, {2}, {MinBars}},
                     nh \in {{}, {2}, {MinBars}},
                     nl \in {{}, {2}, {MinBars}} }
        full == { q \in plain : \A j \in 1..Len(q.close) :
                      ~q.close[j].null /\ ~q.high[j].null /\ ~q.low[j].null }
    IN plain
       \cup { [q EXCEPT !.high = SubSeq(@, 1, Len(@) - 1)] : q \in full }
       \cup { [q EXCEPT !.low[2] = Cell(0)] : q \in full }
       \cup { [kind |-> "error", close |-> <<>>, high |-> <<>>, low |-> <<>>] }

YahooInit ==
    /\ apiKey = TRUE
    /\ snd = SndInit(FALSE)
    /\ mode = "check"
    /\ pc = "secondary"
    /\ top_k = 0
    /\ idx = 0
    /\ out = <<>>
    /\ ret = <<>>
    /\ raised = FALSE
    /\ \E seen \in {"error", "no_data"}, y \in YahooQuotes :
         ev = [EvInit(Universe[1]) EXCEPT
                   !.symbol = Universe[1], !.name = "Company",
                   !.fetch.sym = [attempts |-> <<"primary", "secondary">>,
                                  primary |-> seen, result |-> "running"],
                   !.yahoo = y]
    /\ trail = <<>>
    /\ kept = <<>>

YahooNext == SecondaryResponse

YahooSpec == YahooInit /\ [][YahooNext]_vars

\* The rows of a raw quote block where close, high and low all hold a value
GoodRows(q) ==
    { j \in 1..Len(q.close) :
        /\ j <= Len(q.high)
        /\ j <= Len(q.low)
        /\ ~q.close[j].null
        /\ ~q.high[j].null
        /\ ~q.low[j].null }

\* The i-th smallest element of a set of rows
NthRow(rows, i) ==
    CHOOSE j \in rows : Cardinality({g \in rows : g <= j}) = i

\* C11: the secondary source returns close, high and low of equal length
\* holding exactly the rows where none of the three raw values is None, in
\* their original order, and raises when fewer than 30 such rows remain; a
\* primary "no_data" followed by fewer than 30 aligned rows fails the fetch.
C11_AlignedOrRaises ==
    [][(pc = "secondary" /\ ev.target = "sym") =>
          LET rows == GoodRows(ev.yahoo)
              k == Cardinality(rows)
          IN IF ev.yahoo.kind = "error" \/ k < MinBars
             THEN /\ ev'.fetch.sym.result = "raised"
                  /\ pc' = "done"
                  /\ raised'
                  /\ ret' = <<>>
             ELSE /\ ev'.fetch.sym.result = "returned"
                  /\ Len(ev'.cd.c) = k
                  /\ Len(ev'.cd.h) = k
                  /\ Len(ev'.cd.l) = k
                  /\ \A i \in 1..k :
                         /\ ev'.cd.c[i] = ev.yahoo.close[NthRow(rows, i)].v
                         /\ ev'.cd.h[i] = ev.yahoo.high[NthRow(rows, i)].v
                         /\ ev'.cd.l[i] = ev.yahoo.low[NthRow(rows, i)].v]_vars

\* C11 witness: after a primary "no_data" the secondary source returned 30
\* aligned bars with a row left out between two of them
C11_Witness ==
    /\ ev.fetch.sym.primary = "no_data"
    /\ ev.fetch.sym.result = "returned"
    /\ Len(ev.cd.c) = MinBars
    /\ Len(ev.cd.h) = MinBars
    /\ Len(ev.cd.l) = MinBars
    /\ \E i \in 1..(MinBars - 1) : ev.cd.c[i + 1] - ev.cd.c[i] = 2

\* ------------------------------------------------------------------------
\* evaluate from the end of the benchmark fetch on: series of 30 to 260 bars
\* in every risk bucket, with the benchmark return undefined, low or high
BarsWithDip(n, at, depth, delta, spread) ==
    LET c == [j \in 1..n |-> BasePrice
                             - (IF j = n - at THEN depth ELSE 0)
                             + (IF j = n THEN delta ELSE 0)]
    IN [c |-> c,
        h |-> [j \in 1..n |-> c[j] + spread],
        l |-> [j \in 1..n |-> c[j] - spread]]

SignalSeries ==
    UNION { { Bars(MinBars, 0, -30, sp),
              Bars(MinBars, 0, 0, sp),
              Bars(MinBars, 0, 5, sp),
              Bars(MinBars, 0, 20, sp),
              BarsWithDip(MinBars, 5, 100, -20, sp),
              Bars(RetWindow + 1, 1, 0, sp),
              Bars(SmaLong, 1, 0, sp),
              Bars(SlopeBars, 0, 20, sp),
              Bars(SlopeBars, 10, 0, sp),
              Bars(SlopeBars, 10, -2000, sp),
              Bars(SlopeBars, -2, 0, sp) } : sp \in {5, 10, 40, 80} }

BenchReturns == {NoneVal, Rat(-1, 2), Rat(10, 1)}

\* /check of the first ticker, or /buyideas at the last ticker of the
\* universe after the evaluations before it failed at the search
SignalInit ==
    /\ apiKey = TRUE
    /\ snd = SndInit(FALSE)
    /\ mode \in {"check", "buyideas"}
    /\ pc = "signals"
    /\ top_k = (IF mode = "buyideas" THEN MaxTopK ELSE 0)
    /\ idx = (IF mode = "buyideas" THEN Len(Universe) ELSE 0)
    /\ out = <<>>
    /\ ret = <<>>
    /\ raised = FALSE
    /\ \E b \in SignalSeries, br \in BenchReturns :
         LET sym == IF mode = "buyideas" THEN Universe[Len(Universe)]
                    ELSE Universe[1]
         IN ev = [EvInit(sym) EXCEPT
                      !.symbol = sym, !.name = "Company",
                      !.cd = b, !.target = "bench", !.bench_ret63 = br]
    /\ trail = (IF mode = "buyideas"
                THEN [j \in 1..(Len(Universe) - 1) |-> "search"]
                ELSE <<>>)
    /\ kept = <<>>

\* evaluate from the signals to the await of the quote
SignalsStep ==
    /\ pc = "signals"
    /\ UNCHANGED snd
    /\ AfterBench(ev)

SignalNext == SignalsStep \/ QuoteResponse

SignalSpec == SignalInit /\ [][SignalNext]_vars

\* The three trend conditions of a series, from its prices alone
TrendMaOrdered(c) ==
    LET n == Len(c)
    IN /\ n >= 200
       /\ 50 * c[n] > SumRange(c, n - 49, n)
       /\ 200 * SumRange(c, n - 49, n) > 50 * SumRange(c, n - 199, n)

TrendSlope(c) ==
    LET n == Len(c)
    IN /\ n >= 260
       /\ SumRange(c, n - 49, n) > SumRange(c, n - 59, n - 10)

TrendRelStrength(c, b) ==
    LET n == Len(c)
    IN /\ b.def
       /\ n > 63
       /\ c[n - 63] > 0
       /\ (c[n] - c[n - 63]) * b.d > b.n * c[n - 63]

\* C12: s2_parts is an integer of 0..3, the number of the three trend
\* conditions that hold (close > sma50 > sma200, slope proxy with 260 bars or
\* more, positive relative strength with both 63-day returns defined), and
\* s2 is true exactly when it is 2 or more; an undefined input makes its
\* condition false.
C12_TrendCount ==
    (ev.decision # "") =>
        LET count == B2N(TrendMaOrdered(ev.cd.c)) + B2N(TrendSlope(ev.cd.c))
                     + B2N(TrendRelStrength(ev.cd.c, ev.bench_ret63))
        IN /\ ev.sig.s2_parts \in 0..3
           /\ ev.sig.s2_parts = count
           /\ ev.sig.s2 <=> (count >= 2)

\* C12 witness: 64 bars, so sma200 is undefined and the slope proxy has too
\* few bars: only the relative strength counts and s2 is false
C12_Witness ==
    /\ pc = "quote"
    /\ Len(ev.cd.c) = RetWindow + 1
    /\ ev.bench_ret63.def
    /\ ev.sig.s2_parts = 1
    /\ ~ev.sig.s2

\* The decision chain without the `and not s3` of its COMPRAR branch
DecisionUnguarded(sg) ==
    IF sg.s3 THEN "VENDER"
    ELSE IF sg.s1 THEN "COMPRAR"
    ELSE IF sg.s2 THEN "MANTENER"
    ELSE "EVITAR"

\* C13: for a close series of positive prices s1 and s3 are never both true
\* (s1 needs last close > 1.005 * sma20, s3 needs last close < sma20): the
\* `and not s3` of the COMPRAR branch changes nothing and no VENDER (SELL)
\* result has s1 active.
C13_BreakoutExcludesBreakdown ==
    (/\ ev.decision # ""
     /\ \A j \in 1..Len(ev.cd.c) : ev.cd.c[j] > 0) =>
        /\ ~(ev.sig.s1 /\ ev.sig.s3)
        /\ (ev.decision = "VENDER") => ~ev.sig.s1
        /\ ev.decision = DecisionUnguarded(ev.sig)

\* C13 witness: a breakdown below sma20 on a day whose 5-day return is 3% or
\* more: the momentum condition of s1 holds, s1 does not, the decision is
\* VENDER
C13_Witness ==
    /\ pc = "quote"
    /\ ev.sig.s3
    /\ RatLE(Pct(3), ev.sig.ret5d)
    /\ ~ev.sig.s1
    /\ ev.decision = "VENDER"

\* C15: the fields of a result agree with its decision: a COMPRAR (BUY) or
\* MANTENER (HOLD) result, hence every entry buyideas returns, has a score of
\* 10 or more and confidence Media or Alta; an EVITAR (AVOID) result has
\* score 0, horizon Observacion and confidence Baja; no score is above 90.
C15_ResultConsistent ==
    /\ \A j \in 1..Len(ret) :
           /\ ret[j].decision \in {"COMPRAR", "MANTENER"} =>
                  /\ ret[j].score >= 10
                  /\ ret[j].confianza \in {"Media", "Alta"}
           /\ ret[j].decision = "EVITAR" =>
                  /\ ret[j].score = 0
                  /\ ret[j].horizonte = "Observacion"
                  /\ ret[j].confianza = "Baja"
           /\ ret[j].score <= 90
    /\ (mode = "buyideas") =>
           \A j \in 1..Len(ret) :
               /\ ret[j].decision \in {"COMPRAR", "MANTENER"}
               /\ ret[j].score >= 10
               /\ ret[j].confianza # "Baja"

\* C15 witness: buyideas returned a COMPRAR result of the lowest score, 10:
\* momentum alone in the high-risk bucket, confidence Media
C15_Witness ==
    /\ mode = "buyideas"
    /\ pc = "done"
    /\ Len(ret) = 1
    /\ ret[1].decision = "COMPRAR"
    /\ ret[1].riesgo_cat = "Alto"
    /\ ret[1].score = 10
    /\ ret[1].confianza = "Media"

\* ------------------------------------------------------------------------
\* _send_items: the item commands (/today, /tomorrow, /week, /day) of one
\* chat, each call suspended at one of its awaits; calls overlap when the
\* updates of the chat are handled concurrently or by two instances of the
\* bot on the same store. No key expires: everything happens within the TTL.
Others == <<apiKey, mode, pc, top_k, idx, out, ret, raised, ev, trail, kept>>

\* The lists get_items may return, of 1..MaxItems items
RECURSIVE ItemLists(_)
ItemLists(n) ==
    IF n = 0 THEN {<<>>}
    ELSE LET shorter == ItemLists(n - 1)
         IN shorter \cup { Append(l, it) : l \in { x \in shorter : Len(x) = n - 1 },
                                           it \in Items }

FpOf(item) ==
    make_fingerprint(MEMORY_NAMESPACE, ChatId, build_fingerprint_payload(item))

\* The item a call is at
Current(c) == c.items[c.i]

\* The end of a loop iteration: the next item, or the end of the call
Advance(c, sent1) ==
    IF c.i < Len(c.items)
    THEN [c EXCEPT !.i = c.i + 1, !.sent = sent1,
                   !.pc = IF snd.mem THEN "exists" ELSE "send"]
    ELSE [c EXCEPT !.sent = sent1, !.pc = "done"]

\* An item command arrives: _send_items up to the await of get_items
SendItems(n) ==
    /\ snd.h[n].pc = "idle"
    /\ snd' = [snd EXCEPT !.h[n].pc = "get_items"]
    /\ UNCHANGED Others

\* The answer of provider.get_items: an error, no item, or a list
GetItemsResponse(n) ==
    /\ snd.h[n].pc = "get_items"
    /\ \/ snd' = [snd EXCEPT !.h[n].pc = "done"]
       \/ \E l \in ItemLists(MaxItems) \ {<<>>} :
            snd' = [snd EXCEPT !.h[n] =
                        [pc |-> IF snd.mem THEN "exists" ELSE "send",
                         items |-> l, i |-> 1, sent |-> 0]]
    /\ UNCHANGED Others

\* The answer of mem.exists(fp): the key is there (skip the item), it is not
\* (go on to setex), or the call raised (send without recording)
ExistsResponse(n) ==
    /\ snd.h[n].pc = "exists"
    /\ LET c == snd.h[n]
           fp == FpOf(Current(c))
       IN \/ snd' = [snd EXCEPT !.h[n] =
                         IF fp \in snd.store THEN Advance(c, c.sent)
                         ELSE [c EXCEPT !.pc = "setex"]]
          \/ snd' = [snd EXCEPT !.storeErr = TRUE, !.h[n].pc = "send"]
    /\ UNCHANGED Others

\* The answer of mem.setex(fp, ttl, "1"): recorded, or the call raised
SetexResponse(n) ==
    /\ snd.h[n].pc = "setex"
    /\ LET fp == FpOf(Current(snd.h[n]))
       IN \/ snd' = [snd EXCEPT !.store = @ \cup {fp}, !.h[n].pc = "send"]
          \/ snd' = [snd EXCEPT !.storeErr = TRUE, !.h[n].pc = "send"]
    /\ UNCHANGED Others

\* The answer of reply_text for the item: delivered, or the call raised and
\* the error leaves _send_items
ReplyResponse(n) ==
    /\ snd.h[n].pc = "send"
    /\ LET c == snd.h[n]
           fp == FpOf(Current(c))
       IN \/ snd' = [snd EXCEPT !.delivered[fp] = @ + 1,
                                !.h[n] = Advance(c, c.sent + 1)]
          \/ snd' = [snd EXCEPT !.h[n].pc = "failed"]
    /\ UNCHANGED Others

SendInit ==
    /\ apiKey = TRUE
    /\ mode = "none"
    /\ pc = "idle"
    /\ top_k = 0
    /\ idx = 0
    /\ out = <<>>
    /\ ret = <<>>
    /\ raised = FALSE
    /\ ev = EvInit("")
    /\ trail = <<>>
    /\ kept = <<>>
    /\ \E m \in BOOLEAN : snd = SndInit(m)

SendNext ==
    \E n \in 1..Handlers :
        \/ SendItems(n)
        \/ GetItemsResponse(n)
        \/ ExistsResponse(n)
        \/ SetexResponse(n)
        \/ ReplyResponse(n)

SendSpec == SendInit /\ [][SendNext]_vars

\* A running call is about to send the item of fingerprint fp
AboutToSend(fp) ==
    \E n \in 1..Handlers :
        /\ snd.h[n].pc = "send"
        /\ FpOf(Current(snd.h[n])) = fp

\* C14 as stated: with a configured and working memory store, across any
\* interleaving of _send_items calls for the same chat within the TTL, an
\* item of a given fingerprint is sent at most once, and an item whose
\* fingerprint setex recorded is delivered: the key is never recorded for an
\* item that is not then sent.
C14_SentOnceAndRecordedDelivered ==
    (snd.mem /\ ~snd.storeErr) =>
        /\ \A fp \in Fingerprints : snd.delivered[fp] <= 1
        /\ \A fp \in snd.store : snd.delivered[fp] >= 1 \/ AboutToSend(fp)

====
